---- MODULE Spec2Model ----
(***************************************************************************)
(* The AI fit-scoring pipeline of hy_backend:                              *)
(*   jobseaker/services/ai_matcher.py  JobAIAnalyzer, analyze_multiple_    *)
(*                                     candidates, get_top_matches         *)
(*   jobseaker/views.py                analyze_application                 *)
(*   jobseaker/models.py               AIRemarks (clean, save, Meta)       *)
(*                                                                         *)
(* Several callers (Procs) run pipeline operations against one ai_remarks  *)
(* table.  A caller's invocation is cut at the places where it touches     *)
(* something shared: the upstream LLM call, the database reads of          *)
(* analyze_application and of full_clean()'s validate_unique(), and the    *)
(* database INSERT.                                                        *)
(*                                                                         *)
(* Texts are sequences of tokens: "T" a backtick, "S" a space, "N" a       *)
(* newline, "x" a letter of prose or of a fence tag, "J" the text of a     *)
(* JSON document (whose value is carried beside the text) and "M" a piece  *)
(* of text that is not JSON.  JSON numbers are the integral ones.          *)
(*                                                                         *)
(* Beside the pipeline, the operations of the platform that keep a cached  *)
(* counter or a flag in step with a table:                                 *)
(*   jobseaker/views.py   JobApplicationCreateView.create (daily swipes),  *)
(*                        FollowCompanyView.post, CompanyPostViewSet.like  *)
(*   jobseaker/models.py  JobSeekerSubscription, Resume.save               *)
(*   employer/models.py   CompanyFollower, EmployerProfile, PostLike       *)
(* Each request is cut at its database statements; a statement sees what   *)
(* the statements before it committed (PostgreSQL, READ COMMITTED).        *)
(***************************************************************************)
EXTENDS Integers, Sequences, FiniteSets, TLC

\* ------------------------------------------------------------- bounds
NumSeekers == 2
MaxBatch == 2
MaxLimit == 2
\* the days the clock runs through
MaxDay == 2
\* plan.daily_swipe_limit of the candidate's plan
DailySwipeLimit == 2
\* the resume titles a profile uses
MaxTitles == 2
\* the users who follow companies and like posts
NumUsers == 3
\* the largest likes_count from which a like request is still followed
MaxLikes == 3

\* -------------------------------------------------- program constants
MAX_RETRIES == 3

Procs == {"p1", "p2"}

\* None, as a job post or job seeker argument, and the NULL of a column
None == 0
Null == -1000

\* ------------------------------------------------- the jobs and seekers
\* job_posts table: id -> title, description
JobTitle(j) == IF j = 1 THEN "Backend Engineer" ELSE IF j = 2 THEN "" ELSE "Data Analyst"
JobDescription(j) == IF j = 3 THEN "" ELSE "Build and run the services"
JobIds == {1, 2, 3}
\* an id no row of job_posts has
UnknownJobId == Cardinality(JobIds) + 1
SeekerIds == 1 .. NumSeekers
\* resumes: seeker 1 has a default resume, the other seekers have none
DefaultResumeOf(s) == IF s = 1 THEN 1 ELSE None

\* ------------------------------------------------------- JSON values
JNum(n) == [t |-> "num", n |-> n, s |-> ""]
JStr(s) == [t |-> "str", n |-> 0, s |-> s]
JBool(b) == [t |-> "bool", n |-> IF b THEN 1 ELSE 0, s |-> ""]
JNull == [t |-> "null", n |-> 0, s |-> ""]
JList(n) == [t |-> "list", n |-> n, s |-> ""]
\* a key the object does not have
Absent == [t |-> "absent", n |-> 0, s |-> ""]

\* the keys of the response object: the "Required JSON schema" of PROMPT_TEMPLATE
Fields ==
    { "fit_score", "fit_level", "is_fit", "skills_match_score",
      "experience_match_score", "education_match_score", "location_match_score",
      "remarks", "strengths", "weaknesses", "missing_skills", "matching_skills",
      "recommendations", "interview_recommendation", "suggested_interview_questions",
      "potential_concerns", "salary_expectation_alignment" }

\* the list without its last entry
required_fields_short ==
    << "fit_score", "fit_level", "is_fit", "skills_match_score",
       "experience_match_score", "education_match_score", "location_match_score",
       "remarks", "strengths", "weaknesses", "missing_skills",
       "matching_skills", "recommendations", "interview_recommendation",
       "suggested_interview_questions", "potential_concerns" >>

required_fields ==
    << "fit_score", "fit_level", "is_fit", "skills_match_score",
       "experience_match_score", "education_match_score", "location_match_score",
       "remarks", "strengths", "weaknesses", "missing_skills",
       "matching_skills", "recommendations", "interview_recommendation",
       "suggested_interview_questions", "potential_concerns",
       "salary_expectation_alignment" >>

score_fields ==
    << "fit_score", "skills_match_score", "experience_match_score",
       "education_match_score", "location_match_score" >>

valid_fit_levels == << "excellent", "good", "moderate", "poor" >>

boolean_fields == << "is_fit", "interview_recommendation" >>

Range(f) == {f[i] : i \in DOMAIN f}


\* ------------------------------------------------------------ exceptions
NoExc == [cls |-> "", msg |-> "", keys |-> {}, cause |-> ""]
Exc(cls, msg) == [cls |-> cls, msg |-> msg, keys |-> {}, cause |-> ""]
ExcAt(cls, msg, keys) == [cls |-> cls, msg |-> msg, keys |-> keys, cause |-> ""]

\* --------------------------------------------------------------- texts
IsSpace(c) == c \in {"S", "N"}

\* str.strip()
RECURSIVE LStrip(_)
LStrip(t) == IF t # << >> /\ IsSpace(Head(t)) THEN LStrip(Tail(t)) ELSE t

RECURSIVE RStrip(_)
RStrip(t) ==
    IF t # << >> /\ IsSpace(t[Len(t)]) THEN RStrip(SubSeq(t, 1, Len(t) - 1)) ELSE t

Strip(t) == RStrip(LStrip(t))

\* re.search of the pattern of six backticks: six backticks in a row somewhere
FenceSearch(t) ==
    \E i \in 1 .. Len(t) - 5 : \A k \in 0 .. 5 : t[i + k] = "T"

\* the number of whitespace tokens of t from position i on
RECURSIVE SpaceRun(_, _)
SpaceRun(t, i) == IF i <= Len(t) /\ IsSpace(t[i]) THEN 1 + SpaceRun(t, i + 1) ELSE 0

\* the pattern (whitespace run, three backticks, end of line) of re.sub matches
\* at i: the position of the last token of the match, or 0
FenceEndAt(t, i) ==
    LET j == i + SpaceRun(t, i) IN
    IF /\ j + 2 <= Len(t)
       /\ t[j] = "T" /\ t[j + 1] = "T" /\ t[j + 2] = "T"
       /\ (j + 3 > Len(t) \/ t[j + 3] = "N")
    THEN j + 2
    ELSE 0

\* re.sub of that pattern by the empty text with re.MULTILINE, from position i on
RECURSIVE FenceSub(_, _)
FenceSub(t, i) ==
    IF i > Len(t) THEN << >>
    ELSE IF FenceEndAt(t, i) # 0 THEN FenceSub(t, FenceEndAt(t, i) + 1)
    ELSE << t[i] >> \o FenceSub(t, i + 1)

\* _clean_json_response: the exception it raises (NoExc for none) and its result
_clean_json_response(response) ==
    IF response = << >>
    THEN [exc |-> Exc("AIMatcherException", "Empty response from OpenAI"), text |-> << >>]
    ELSE IF FenceSearch(Strip(response))
    THEN [exc |-> Exc("IndexError", "no such group"), text |-> << >>]
    ELSE [exc |-> NoExc, text |-> Strip(FenceSub(Strip(response), 1))]

\* ----------------------------------------------------- JSON documents
\* a JSON document: an object (kind "dict", d its members), an array, a number
Dict(d) == [kind |-> "dict", d |-> d]
NoMembers == [f \in Fields |-> Absent]
ListDoc == [kind |-> "list", d |-> NoMembers]
NumberDoc == [kind |-> "num", d |-> NoMembers]

\* json.loads of a cleaned text whose "J" token stands for the document doc
JsonLoads(text, doc) ==
    IF text = << "J" >>
    THEN [exc |-> NoExc, doc |-> doc]
    ELSE [exc |-> Exc("AIMatcherException", "Invalid JSON from OpenAI"), doc |-> ListDoc]

\* ---------------------------------------------------- schema validator
\* the first element of the sequence fs that is in the set bad, or "" when none is
FirstBad(fs, bad) ==
    IF \E i \in DOMAIN fs : fs[i] \in bad
    THEN fs[CHOOSE i \in DOMAIN fs :
                fs[i] \in bad /\ \A k \in 1 .. i - 1 : fs[k] \notin bad]
    ELSE ""

\* field not in parsed_data
FieldMissing(doc, f) == doc.kind # "dict" \/ doc.d[f] = Absent

\* not isinstance(score, (int, float)) or not (0 <= score <= 100); bool is an int
ScoreInvalid(v) == ~ (v.t \in {"num", "bool"}) \/ ~ (0 <= v.n /\ v.n <= 100)

FitLevelInvalid(v) == ~ (v.t = "str" /\ v.s \in Range(valid_fit_levels))

\* a check for a missing value only (value is None)
BooleanInvalidIfNone(v) == v.t = "null"

\* not isinstance(value, bool)
BooleanInvalid(v) == v.t # "bool"

\* _validate_ai_output: the exception it raises, NoExc when the payload passes
_validate_ai_output(doc) ==
    LET missing == FirstBad(required_fields, {f \in Range(required_fields) : FieldMissing(doc, f)})
        badScore == FirstBad(score_fields, {f \in Range(score_fields) : ScoreInvalid(doc.d[f])})
        badBool == FirstBad(boolean_fields, {f \in Range(boolean_fields) : BooleanInvalid(doc.d[f])})
    IN
    IF doc.kind = "num"
    THEN Exc("TypeError", "argument of type 'int' is not iterable")
    ELSE IF missing # ""
    THEN ExcAt("AIMatcherException", "Missing required field", {missing})
    ELSE IF badScore # ""
    THEN ExcAt("AIMatcherException", "Invalid score", {badScore})
    ELSE IF FitLevelInvalid(doc.d["fit_level"])
    THEN ExcAt("AIMatcherException", "Invalid fit_level", {"fit_level"})
    ELSE IF badBool # ""
    THEN ExcAt("AIMatcherException", "Field must be boolean", {badBool})
    ELSE NoExc


\* ------------------------------------------------------ AIRemarks rows
FitLevelChoices == {"excellent", "good", "moderate", "poor", "unknown"}
SalaryChoices == {"aligned", "too_high", "too_low", "unknown"}

\* AIRemarks(job_post=.., job_seeker=.., analysis_status=PENDING, ..) with the
\* defaults of the model's fields; id is given at the INSERT
_create_ai_remarks_object(j, s) ==
    [ id |-> 0, job_post |-> j, job_seeker |-> s,
      analysis_status |-> "pending",
      is_fit |-> JNull, fit_score |-> Null, fit_level |-> "unknown",
      skills_match_score |-> Null, experience_match_score |-> Null,
      education_match_score |-> Null, location_match_score |-> Null,
      remarks |-> JStr(""), strengths |-> JList(0), weaknesses |-> JList(0),
      missing_skills |-> JList(0), matching_skills |-> JList(0),
      recommendations |-> JList(0), interview_recommendation |-> JNull,
      suggested_interview_questions |-> JList(0), potential_concerns |-> JList(0),
      salary_expectation_alignment |-> "", confidence_score |-> Null,
      analysis_duration_seconds |-> Null, error_message |-> "",
      analyzed_at |-> FALSE,
      reviewed_by_human |-> FALSE, human_override |-> FALSE, human_remarks |-> "" ]

\* no row: what a failed invocation returns
NoRecord == [_create_ai_remarks_object(None, None) EXCEPT !.analysis_status = ""]

\* a get that always answers with the default
GetDefault(d, key, default) == default

\* parsed_data.get(key, default)
Get(d, key, default) == IF d[key] = Absent THEN default ELSE d[key]

\* a populate that also marks the record as reviewed
_populate_ai_remarks_reviewed(r, d, analysis_duration) ==
    [ r EXCEPT
      !.is_fit = Get(d, "is_fit", JNull),
      !.fit_score = Get(d, "fit_score", JNum(0)).n,
      !.fit_level = Get(d, "fit_level", JStr("unknown")).s,
      !.skills_match_score = Get(d, "skills_match_score", JNum(0)).n,
      !.experience_match_score = Get(d, "experience_match_score", JNum(0)).n,
      !.education_match_score = Get(d, "education_match_score", JNum(0)).n,
      !.location_match_score = Get(d, "location_match_score", JNum(0)).n,
      !.remarks = Get(d, "remarks", JStr("")),
      !.strengths = Get(d, "strengths", JList(0)),
      !.weaknesses = Get(d, "weaknesses", JList(0)),
      !.missing_skills = Get(d, "missing_skills", JList(0)),
      !.matching_skills = Get(d, "matching_skills", JList(0)),
      !.recommendations = Get(d, "recommendations", JList(0)),
      !.interview_recommendation = Get(d, "interview_recommendation", JBool(FALSE)),
      !.suggested_interview_questions = Get(d, "suggested_interview_questions", JList(0)),
      !.potential_concerns = Get(d, "potential_concerns", JList(0)),
      !.salary_expectation_alignment =
          Get(d, "salary_expectation_alignment", JStr("unknown")).s,
      !.analysis_status = "completed",
      !.analyzed_at = TRUE,
      !.confidence_score = 95,
      !.analysis_duration_seconds = analysis_duration,
      !.reviewed_by_human = TRUE ]

\* _populate_ai_remarks; float() of a bool is 0.0 or 1.0
_populate_ai_remarks(r, d, analysis_duration) ==
    [ r EXCEPT
      !.is_fit = Get(d, "is_fit", JNull),
      !.fit_score = Get(d, "fit_score", JNum(0)).n,
      !.fit_level = Get(d, "fit_level", JStr("unknown")).s,
      !.skills_match_score = Get(d, "skills_match_score", JNum(0)).n,
      !.experience_match_score = Get(d, "experience_match_score", JNum(0)).n,
      !.education_match_score = Get(d, "education_match_score", JNum(0)).n,
      !.location_match_score = Get(d, "location_match_score", JNum(0)).n,
      !.remarks = Get(d, "remarks", JStr("")),
      !.strengths = Get(d, "strengths", JList(0)),
      !.weaknesses = Get(d, "weaknesses", JList(0)),
      !.missing_skills = Get(d, "missing_skills", JList(0)),
      !.matching_skills = Get(d, "matching_skills", JList(0)),
      !.recommendations = Get(d, "recommendations", JList(0)),
      !.interview_recommendation = Get(d, "interview_recommendation", JBool(FALSE)),
      !.suggested_interview_questions = Get(d, "suggested_interview_questions", JList(0)),
      !.potential_concerns = Get(d, "potential_concerns", JList(0)),
      !.salary_expectation_alignment =
          Get(d, "salary_expectation_alignment", JStr("unknown")).s,
      !.analysis_status = "completed",
      !.analyzed_at = TRUE,
      !.confidence_score = 95,
      !.analysis_duration_seconds = analysis_duration ]

\* MinValueValidator(0), MaxValueValidator(100) of a nullable decimal column
DecimalFieldOk(v) == v = Null \/ (0 <= v /\ v <= 100)

\* Model.clean_fields(): the names of the fields whose validation fails
clean_fields(r) ==
    {f \in {"fit_score"} : ~ DecimalFieldOk(r.fit_score)}
    \cup {f \in {"skills_match_score"} : ~ DecimalFieldOk(r.skills_match_score)}
    \cup {f \in {"experience_match_score"} : ~ DecimalFieldOk(r.experience_match_score)}
    \cup {f \in {"education_match_score"} : ~ DecimalFieldOk(r.education_match_score)}
    \cup {f \in {"location_match_score"} : ~ DecimalFieldOk(r.location_match_score)}
    \cup {f \in {"confidence_score"} : ~ DecimalFieldOk(r.confidence_score)}
    \cup {f \in {"fit_level"} : r.fit_level \notin FitLevelChoices}
    \cup {f \in {"salary_expectation_alignment"} :
              r.salary_expectation_alignment \notin SalaryChoices \cup {""}}

\* a clean() without the consistency rule
cleanNothing(r) == {}

\* AIRemarks.clean(): the fit_score / fit_level consistency rule
clean(r) ==
    IF r.fit_score = Null THEN {}
    ELSE IF r.fit_score >= 80 /\ r.fit_level \notin {"excellent", "good"} THEN {"fit_level"}
    ELSE IF r.fit_score < 40 /\ r.fit_level = "excellent" THEN {"fit_level"}
    ELSE {}

\* the rows of the table with the (job_post, job_seeker) of r
SamePair(r, table) == {x \in table : x.job_post = r.job_post /\ x.job_seeker = r.job_seeker}

\* a validate_unique() that finds nothing
validate_unique_off(r, table) == {}

\* Model.validate_unique() for unique_together = [job_post, job_seeker]: a query
validate_unique(r, table) == IF SamePair(r, table) # {} THEN {"__all__"} ELSE {}

\* Model.full_clean(): the ValidationError it raises, NoExc when the row is valid
full_clean(r, table) ==
    LET errors == clean_fields(r) \cup clean(r) \cup validate_unique(r, table) IN
    IF errors = {} THEN NoExc ELSE ExcAt("ValidationError", "full_clean", errors)

\* a table without the unique constraint
UniqueConstraintOff(r, table) == TRUE

\* the unique constraint of the ai_remarks table, checked by the INSERT itself
UniqueConstraintOk(r, table) == SamePair(r, table) = {}

\* the primary key of a new row (uuid4: no two rows share one)
FreshId(table) == Cardinality(table) + 1


\* ------------------------------------------------ the upstream model
\* a response object with every required key
Payload(fit_score, fit_level) ==
    [f \in Fields |->
        CASE f = "fit_score" -> JNum(fit_score)
          [] f = "fit_level" -> JStr(fit_level)
          [] f \in {"is_fit", "interview_recommendation"} -> JBool(TRUE)
          [] f = "skills_match_score" -> JNum(100)
          [] f = "experience_match_score" -> JNum(0)
          [] f \in {"education_match_score", "location_match_score"} -> JNum(70)
          [] f = "remarks" -> JStr("Strong backend profile")
          [] f = "salary_expectation_alignment" -> JStr("aligned")
          [] OTHER -> JList(1)]

BasePayload == Payload(80, "excellent")
With(d, f, v) == [d EXCEPT ![f] = v]
Without(d, f) == [d EXCEPT ![f] = Absent]

FitScoreInputs == {39, 40, 80}
FitLevelInputs == {"excellent", "poor"}
BadScoreInputs == {-5, 150}

\* score values at the bounds of the range, and values that are no numbers: a
\* string, true, null
ScoreValueInputs == {JNum(0), JNum(100), JStr("85"), JBool(TRUE), JNull}

\* fit levels besides FitLevelInputs: of the enum, and not of it
OtherFitLevelInputs == {"good", "moderate", "unknown", "great"}

\* values of a boolean field: false, and values that are no booleans
BooleanValueInputs == {JBool(FALSE), JStr("true"), JNum(1), JNull}

\* the documents the upstream model answers with
UpstreamDocs ==
    {Dict(Payload(fs, fl)) : fs \in FitScoreInputs, fl \in FitLevelInputs}
    \cup {Dict(Without(BasePayload, f)) : f \in Fields}
    \cup {Dict(With(BasePayload, f, JNum(v))) : f \in Range(score_fields), v \in BadScoreInputs}
    \cup {Dict(With(BasePayload, "salary_expectation_alignment", JStr("negotiable")))}
    \cup {ListDoc, NumberDoc}

\* answers that probe the validator's checks of types and enums, field by field
SchemaDocs ==
    {Dict(With(BasePayload, f, v)) : f \in Range(score_fields), v \in ScoreValueInputs}
    \cup {Dict(With(BasePayload, f, JNum(v))) : f \in Range(score_fields), v \in BadScoreInputs}
    \cup {Dict(Payload(40, fl)) : fl \in OtherFitLevelInputs \cup FitLevelInputs}
    \cup {Dict(With(BasePayload, "fit_level", JNull))}
    \cup {Dict(With(BasePayload, f, v)) : f \in Range(boolean_fields), v \in BooleanValueInputs}
    \cup {Dict(BasePayload)}

\* the texts it wraps a document in: padded, fenced, fenced with a tag, an empty
\* fenced block, blank, not JSON at all, prose before the document, a lone fence,
\* two fences on one line
UpstreamTexts ==
    { << "S", "J", "N" >>,
      << "T", "T", "T", "N", "J", "N", "T", "T", "T" >>,
      << "T", "T", "T", "x", "N", "J", "N", "T", "T", "T" >>,
      << "T", "T", "T", "T", "T", "T" >>,
      << "S" >>,
      << "M" >>,
      << "x", "S", "J" >>,
      << "T", "T", "T" >>,
      << "T", "T", "T", "S", "T", "T", "T" >> }

NoText == [text |-> << >>, doc |-> ListDoc]

\* what one upstream call does: it raises err, or its message content is None
\* (kind "none"), or it is a text
UpstreamOutcomes ==
    {[kind |-> "raise", err |-> e, text |-> << >>, doc |-> ListDoc] :
        e \in {"APITimeoutError", "RateLimitError"}}
    \cup {[kind |-> "none", err |-> "", text |-> << >>, doc |-> ListDoc]}
    \cup {[kind |-> "text", err |-> "", text |-> << >>, doc |-> ListDoc]}
    \cup {[kind |-> "text", err |-> "", text |-> << "J" >>, doc |-> d] : d \in UpstreamDocs}
    \cup {[kind |-> "text", err |-> "", text |-> t, doc |-> Dict(BasePayload)] : t \in UpstreamTexts}

\* ------------------------------------------------------ JobAIAnalyzer
\* _get_default_resume: job_seeker.resumes raises on None, and the handler's log
\* line reads job_seeker.id, which raises again
_get_default_resume(s) ==
    IF s = None
    THEN [exc |-> Exc("AttributeError", "NoneType object has no attribute id"), resume |-> None]
    ELSE [exc |-> NoExc, resume |-> DefaultResumeOf(s)]

_validate_inputs(j, s) ==
    IF j = None THEN Exc("ValidationError", "JobPost is required")
    ELSE IF s = None THEN Exc("ValidationError", "JobSeekerProfile is required")
    ELSE IF JobTitle(j) = "" \/ JobDescription(j) = ""
    THEN Exc("ValidationError", "Job post must have title and description")
    ELSE NoExc

\* JobAIAnalyzer.__init__: resume or self._get_default_resume(), then _validate_inputs
JobAIAnalyzerInit(j, s, resume) ==
    LET dflt == IF resume # None THEN [exc |-> NoExc, resume |-> resume]
                ELSE _get_default_resume(s)
    IN IF dflt.exc # NoExc THEN dflt
       ELSE [exc |-> _validate_inputs(j, s), resume |-> dflt.resume]

\* the bound off by one: retry_count < MAX_RETRIES
CanRetryOnceMore(retry_count) == retry_count < MAX_RETRIES

\* retry_count < MAX_RETRIES - 1
CanRetry(retry_count) == retry_count < MAX_RETRIES - 1

\* a backoff that does not grow
Pow2Flat(n) == 1

\* 2 ** retry_count
RECURSIVE Pow2(_)
Pow2(n) == IF n = 0 THEN 1 ELSE 2 * Pow2(n - 1)

\* the error of a failed attempt: the client's, or the empty-response one
AttemptError(u) ==
    IF u.kind = "raise" THEN Exc(u.err, "upstream call failed")
    ELSE Exc("AIMatcherException", "Empty response from OpenAI API")

\* not raw_output
AttemptFailed(u) == u.kind \in {"raise", "none"} \/ (u.kind = "text" /\ u.text = << >>)

\* return raw_output.strip(): the text an attempt that did not fail returns
GatewayReturn(u) == Strip(u.text)

\* a gateway error that tells nothing about the attempt that failed
GatewayErrorNoCause(e) ==
    [cls |-> "AIMatcherException", msg |-> "OpenAI API failed after MAX_RETRIES attempts",
     keys |-> {}, cause |-> ""]

\* raise AIMatcherException(f"OpenAI API failed after {MAX_RETRIES} attempts: {e}")
GatewayError(e) ==
    [cls |-> "AIMatcherException", msg |-> "OpenAI API failed after MAX_RETRIES attempts",
     keys |-> {}, cause |-> e.cls]

\* except (AIMatcherException, ValidationError): raise
Reraised(e) == e.cls \in {"AIMatcherException", "ValidationError"}

\* raise AIMatcherException(error_msg) from e
Unexpected(e) ==
    [cls |-> "AIMatcherException", msg |-> "Unexpected error during AI analysis",
     keys |-> e.keys, cause |-> e.cls]

\* a failure path that sets the status and the duration only
FailedRemarksNoMessage(r, e, duration) ==
    [r EXCEPT !.analysis_status = "failed", !.analysis_duration_seconds = duration]

\* the failure path's writes to the remarks object
FailedRemarks(r, e, duration) ==
    [r EXCEPT !.analysis_status = "failed", !.error_message = e.msg,
              !.analysis_duration_seconds = duration]

\* an analyze() that trusts the answer: no _validate_ai_output, and a save() whose
\* full_clean() checks uniqueness only
AnalyzeBodyTrusting(raw, r0, table, duration) ==
    LET c == _clean_json_response(raw.text)
        l == JsonLoads(c.text, raw.doc)
        populated == _populate_ai_remarks(r0, l.doc.d, duration)
    IN
    IF c.exc # NoExc THEN [exc |-> c.exc, remarks |-> r0]
    ELSE IF l.exc # NoExc THEN [exc |-> l.exc, remarks |-> r0]
    ELSE IF l.doc.kind # "dict"
    THEN [exc |-> Exc("AttributeError", "object has no attribute get"), remarks |-> r0]
    ELSE IF validate_unique(populated, table) # {}
    THEN [exc |-> ExcAt("ValidationError", "full_clean", {"__all__"}), remarks |-> populated]
    ELSE [exc |-> NoExc, remarks |-> populated]

\* analyze(), from the gateway's return to the full_clean() of remarks.save(): the
\* exception raised on the way (NoExc: the INSERT comes next) and the remarks object
AnalyzeBody(raw, r0, table, duration) ==
    LET c == _clean_json_response(raw.text)
        l == JsonLoads(c.text, raw.doc)
        v == _validate_ai_output(l.doc)
        populated == _populate_ai_remarks(r0, l.doc.d, duration)
    IN
    IF c.exc # NoExc THEN [exc |-> c.exc, remarks |-> r0]
    ELSE IF l.exc # NoExc THEN [exc |-> l.exc, remarks |-> r0]
    ELSE IF v # NoExc THEN [exc |-> v, remarks |-> r0]
    ELSE [exc |-> full_clean(populated, table), remarks |-> populated]


\* ------------------------------------------------- batch and ranking
\* a loop that a failed candidate ends (break in place of continue)
AfterCandidateBreak(ok, i, n) == IF ok THEN i + 1 ELSE n + 1

\* the loop position after the candidate at position i ended (ok or not): the
\* except clause of analyze_multiple_candidates continues with the next one
AfterCandidate(ok, i, n) == i + 1

\* for job_seeker in job_seekers from position i on: the first candidate whose
\* JobAIAnalyzer(job_post, job_seeker) does not raise; one log entry per
\* candidate whose constructor raised
RECURSIVE LoopFrom(_, _, _, _)
LoopFrom(j, ss, i, lg) ==
    IF i > Len(ss) THEN [idx |-> i, log |-> lg]
    ELSE IF JobAIAnalyzerInit(j, ss[i], None).exc = NoExc THEN [idx |-> i, log |-> lg]
    ELSE LoopFrom(j, ss, AfterCandidate(FALSE, i, Len(ss)), Append(lg, FALSE))

\* [r for r in results if r.analysis_status == COMPLETED]
RECURSIVE SuccessfulResults(_)
SuccessfulResults(rs) ==
    IF rs = << >> THEN << >>
    ELSE IF Head(rs).analysis_status = "completed"
    THEN << Head(rs) >> \o SuccessfulResults(Tail(rs))
    ELSE SuccessfulResults(Tail(rs))

\* x put into the sorted sequence sorted, behind the elements that do not come after it
RECURSIVE InsertSorted(_, _)
InsertSorted(sorted, x) ==
    IF sorted = << >> THEN << x >>
    ELSE IF Head(sorted).fit_score >= x.fit_score
    THEN << Head(sorted) >> \o InsertSorted(Tail(sorted), x)
    ELSE << x >> \o sorted

\* no sort at all
SortByFitScoreNone(rs) == rs

\* list.sort(key=lambda x: x.fit_score, reverse=True): stable, descending
RECURSIVE SortByFitScore(_)
SortByFitScore(rs) ==
    IF rs = << >> THEN << >>
    ELSE InsertSorted(SortByFitScore(SubSeq(rs, 1, Len(rs) - 1)), rs[Len(rs)])

\* successful_results[:limit], limit >= 0
Truncate(rs, lim) == SubSeq(rs, 1, IF lim < Len(rs) THEN lim ELSE Len(rs))

\* what get_top_matches makes of the batch's results
TopMatches(rs, lim) == Truncate(SortByFitScore(SuccessfulResults(rs)), lim)

\* ----------------------------------------------------- analyze_application
\* the lookup finds nothing (a filter that matches no row)
ExistingAnalysisNone(j, s, table) == NoRecord

\* AIRemarks.objects.filter(job_post, job_seeker, analysis_status=COMPLETED).first(),
\* under Meta.ordering = ['-created_at']; NoRecord for None
ExistingAnalysis(j, s, table) ==
    LET found == {x \in table : x.job_post = j /\ x.job_seeker = s
                                /\ x.analysis_status = "completed"}
    IN IF found = {} THEN NoRecord
       ELSE CHOOSE x \in found : \A y \in found : y.id <= x.id

\* except Exception as e: raise Exception(f"Application analysis failed: {e}")
Wrapped(e) ==
    [cls |-> "Exception", msg |-> "Application analysis failed", keys |-> e.keys,
     cause |-> e.cls]

\* ---------------------------------------------------------------- state
VARIABLES
    records,        \* the ai_remarks table
    pc,             \* per caller: idle, gateway, insert
    op,             \* the operation a caller runs (or ran last)
    job,            \* its job_post argument
    seekers,        \* its job_seeker argument(s)
    limit,          \* get_top_matches's limit
    idx,            \* the position of the candidate being analysed
    resume_arg,     \* the resume argument of the constructor
    resume,         \* self.resume
    retry_count,    \* _call_openai_api's retry_count
    calls,          \* upstream calls made by the current analyze()
    remarks,        \* analyze()'s remarks object
    exc,            \* the exception the operation raised to its caller
    ret,            \* the record analyze() / analyze_application returned
    results,        \* analyze_multiple_candidates's results list
    log,            \* per candidate tried so far: did its analysis succeed
    returned,       \* the list a batch or ranking operation returned
    today,          \* timezone.now().date()
    subscription,   \* the candidate's jobseeker_subscriptions row
    applications,   \* the candidate's job applications
    apply,          \* per caller: its JobApplicationCreateView.create request
    resumes,        \* the jobseeker_resumes table
    saving,         \* per caller: its Resume.save() call
    followers,      \* the CompanyFollower rows
    followers_count,\* per company: EmployerProfile.followers_count
    likes,          \* the PostLike rows of the post
    likes_count,    \* the post's CompanyPost.likes_count
    liking          \* per caller: its CompanyPostViewSet.like request

\* the state of the pipeline, and the state of the other platform operations
pipeline == << records, pc, op, job, seekers, limit, idx, resume_arg, resume, retry_count,
               calls, remarks, exc, ret, results, log, returned >>
platform == << today, subscription, applications, apply, resumes, saving, followers,
               followers_count, likes, likes_count, liking >>

vars == << pipeline, platform >>

\* the companies users follow
Companies == {1, 2}

\* a caller with no apply request, no Resume.save() and no like request running
IdleApply == [pc |-> "idle", job_post |-> None, status |-> "", daily_swipes_used |-> 0,
              swipe_reset_date |-> 0, reset |-> FALSE, response |-> 0]
NoResume == [id |-> None, profile |-> None, title |-> 0, is_default |-> FALSE,
             resume_pdf |-> FALSE]
IdleSave == [pc |-> "idle", self |-> NoResume, exc |-> ""]
IdleLike == [pc |-> "idle", user |-> None, likes_count |-> 0, liked |-> FALSE]

Init ==
    /\ records = {}
    /\ pc = [p \in Procs |-> "idle"]
    /\ op = [p \in Procs |-> "none"]
    /\ job = [p \in Procs |-> None]
    /\ seekers = [p \in Procs |-> << >>]
    /\ limit = [p \in Procs |-> 0]
    /\ idx = [p \in Procs |-> 1]
    /\ resume_arg = [p \in Procs |-> None]
    /\ resume = [p \in Procs |-> None]
    /\ retry_count = [p \in Procs |-> 0]
    /\ calls = [p \in Procs |-> 0]
    /\ remarks = [p \in Procs |-> NoRecord]
    /\ exc = [p \in Procs |-> NoExc]
    /\ ret = [p \in Procs |-> NoRecord]
    /\ results = [p \in Procs |-> << >>]
    /\ log = [p \in Procs |-> << >>]
    /\ returned = [p \in Procs |-> << >>]
    /\ today = 1
    /\ subscription = [daily_swipes_used |-> 0, swipe_reset_date |-> 1, status |-> "active"]
    /\ applications = {}
    /\ apply = [p \in Procs |-> IdleApply]
    /\ resumes = {[id |-> 1, profile |-> 1, title |-> 1, is_default |-> TRUE,
                   resume_pdf |-> TRUE]}
    /\ saving = [p \in Procs |-> IdleSave]
    /\ followers = {}
    /\ followers_count = [c \in Companies |-> 0]
    /\ likes = {}
    /\ likes_count = 0
    /\ liking = [p \in Procs |-> IdleLike]

\* the locals of one analyze() invocation
Locals(p) == [retry_count |-> retry_count[p], calls |-> calls[p], remarks |-> remarks[p]]

FreshLocals(r) == [retry_count |-> 0, calls |-> 0, remarks |-> r]

SetLocals(p, st) ==
    /\ retry_count' = [retry_count EXCEPT ![p] = st.retry_count]
    /\ calls' = [calls EXCEPT ![p] = st.calls]
    /\ remarks' = [remarks EXCEPT ![p] = st.remarks]

\* the operation o of caller p starts: its arguments
Begin(p, o, j, ss, lim, r) ==
    /\ pc[p] = "idle"
    /\ op' = [op EXCEPT ![p] = o]
    /\ job' = [job EXCEPT ![p] = j]
    /\ seekers' = [seekers EXCEPT ![p] = ss]
    /\ limit' = [limit EXCEPT ![p] = lim]
    /\ resume_arg' = [resume_arg EXCEPT ![p] = r]
    /\ UNCHANGED platform

\* the operation of caller p ends at once, raising e or returning rec
EndAtOnce(p, e, rec) ==
    /\ pc' = pc
    /\ exc' = [exc EXCEPT ![p] = e]
    /\ ret' = [ret EXCEPT ![p] = rec]
    /\ idx' = [idx EXCEPT ![p] = 1]
    /\ resume' = [resume EXCEPT ![p] = None]
    /\ results' = [results EXCEPT ![p] = << >>]
    /\ log' = [log EXCEPT ![p] = << >>]
    /\ returned' = [returned EXCEPT ![p] = << >>]
    /\ SetLocals(p, FreshLocals(NoRecord))

\* analyze() of caller p starts for candidate s of job j: the remarks object is
\* made and the gateway is called next
EnterAnalyze(p, j, s, r) ==
    /\ pc' = [pc EXCEPT ![p] = "gateway"]
    /\ exc' = [exc EXCEPT ![p] = NoExc]
    /\ ret' = [ret EXCEPT ![p] = NoRecord]
    /\ idx' = [idx EXCEPT ![p] = 1]
    /\ resume' = [resume EXCEPT ![p] = r]
    /\ results' = [results EXCEPT ![p] = << >>]
    /\ log' = [log EXCEPT ![p] = << >>]
    /\ returned' = [returned EXCEPT ![p] = << >>]
    /\ SetLocals(p, FreshLocals(_create_ai_remarks_object(j, s)))

\* what a batch or ranking operation returns from its results list
BatchReturn(o, rs, lim) == IF o = "top" THEN TopMatches(rs, lim) ELSE rs

\* the analyze() of caller p ends for its current candidate, raising e (NoExc:
\* returning rec), its locals being st; a batch goes on with the next candidate
EndCandidate(p, e, rec, st) ==
    IF op[p] \in {"analyze", "application"}
    THEN /\ pc' = [pc EXCEPT ![p] = "idle"]
         /\ exc' = [exc EXCEPT ![p] = IF op[p] = "application" /\ e # NoExc
                                      THEN Wrapped(e) ELSE e]
         /\ ret' = [ret EXCEPT ![p] = rec]
         /\ SetLocals(p, st)
         /\ UNCHANGED << idx, resume, results, log, returned >>
    ELSE LET ok == e = NoExc
             n == Len(seekers[p])
             rs == IF ok THEN Append(results[p], rec) ELSE results[p]
             nxt == LoopFrom(job[p], seekers[p], AfterCandidate(ok, idx[p], n),
                             Append(log[p], ok))
         IN /\ results' = [results EXCEPT ![p] = rs]
            /\ log' = [log EXCEPT ![p] = nxt.log]
            /\ idx' = [idx EXCEPT ![p] = nxt.idx]
            /\ UNCHANGED << exc, ret >>
            /\ IF nxt.idx > n
               THEN /\ pc' = [pc EXCEPT ![p] = "idle"]
                    /\ returned' = [returned EXCEPT ![p] = BatchReturn(op[p], rs, limit[p])]
                    /\ SetLocals(p, st)
                    /\ UNCHANGED resume
               ELSE /\ pc' = [pc EXCEPT ![p] = "gateway"]
                    /\ UNCHANGED returned
                    /\ resume' = [resume EXCEPT ![p] =
                                     _get_default_resume(seekers[p][nxt.idx]).resume]
                    /\ SetLocals(p, FreshLocals(
                           _create_ai_remarks_object(job[p], seekers[p][nxt.idx])))

\* ------------------------------------------------------------ actions
\* JobAIAnalyzer(job_post, job_seeker, resume).analyze(), up to the gateway call
Analyze(p, j, s, r) ==
    /\ Begin(p, "analyze", j, << s >>, 0, r)
    /\ LET init == JobAIAnalyzerInit(j, s, r) IN
       IF init.exc # NoExc
       THEN EndAtOnce(p, init.exc, NoRecord)
       ELSE EnterAnalyze(p, j, s, init.resume)
    /\ UNCHANGED records

\* analyze_application(job_post_id, seeker), up to the gateway call
AnalyzeApplication(p, j, s) ==
    /\ Begin(p, "application", j, << s >>, 0, None)
    /\ LET existing_analysis == ExistingAnalysis(j, s, records)
           init == JobAIAnalyzerInit(j, s, None)
       IN
       IF j \notin JobIds
       THEN EndAtOnce(p, Wrapped(Exc("DoesNotExist", "JobPost matching query does not exist")),
                      NoRecord)
       ELSE IF s \notin SeekerIds
       THEN EndAtOnce(p, Wrapped(Exc("DoesNotExist",
                                     "JobSeekerProfile matching query does not exist")),
                      NoRecord)
       ELSE IF existing_analysis # NoRecord
       THEN EndAtOnce(p, NoExc, existing_analysis)
       ELSE IF init.exc # NoExc
       THEN EndAtOnce(p, Wrapped(init.exc), NoRecord)
       ELSE EnterAnalyze(p, j, s, init.resume)
    /\ UNCHANGED records

\* analyze_multiple_candidates (o = "batch") / get_top_matches (o = "top"), up to
\* the first gateway call
Batch(p, o, j, ss, lim) ==
    /\ Begin(p, o, j, ss, lim, None)
    /\ LET first == LoopFrom(j, ss, 1, << >>) IN
       /\ exc' = [exc EXCEPT ![p] = NoExc]
       /\ ret' = [ret EXCEPT ![p] = NoRecord]
       /\ results' = [results EXCEPT ![p] = << >>]
       /\ log' = [log EXCEPT ![p] = first.log]
       /\ idx' = [idx EXCEPT ![p] = first.idx]
       /\ returned' = [returned EXCEPT ![p] = << >>]
       /\ IF first.idx > Len(ss)
          THEN /\ pc' = pc
               /\ resume' = [resume EXCEPT ![p] = None]
               /\ SetLocals(p, FreshLocals(NoRecord))
          ELSE /\ pc' = [pc EXCEPT ![p] = "gateway"]
               /\ resume' = [resume EXCEPT ![p] = _get_default_resume(ss[first.idx]).resume]
               /\ SetLocals(p, FreshLocals(_create_ai_remarks_object(j, ss[first.idx])))
    /\ UNCHANGED records

\* the seconds _call_openai_api has slept when it makes the attempt numbered
\* retry_count: 2 ** k after each failed attempt k
RECURSIVE Slept(_)
Slept(n) == IF n = 0 THEN 0 ELSE Slept(n - 1) + Pow2(n - 1)

\* int(time.time() - start_time), the upstream calls taking no time
Duration(n) == Slept(n)

\* one attempt of _call_openai_api with the upstream outcome u, and after an answer
\* the rest of analyze() up to the end of full_clean() in remarks.save() (of the
\* failure path's save, when an unexpected exception was raised before)
CallOpenAI(p, u) ==
    /\ pc[p] = "gateway"
    /\ LET st == [Locals(p) EXCEPT !.calls = @ + 1]
           raw_output == [text |-> GatewayReturn(u), doc |-> u.doc]
           out == AnalyzeBody(raw_output, remarks[p], records, Duration(retry_count[p]))
           failed == FailedRemarks(out.remarks, out.exc, Duration(retry_count[p]))
       IN
       IF AttemptFailed(u)
       THEN IF CanRetry(retry_count[p])
            THEN /\ SetLocals(p, [st EXCEPT !.retry_count = @ + 1])
                 /\ UNCHANGED << pc, exc, ret, idx, resume, results, log, returned >>
            ELSE EndCandidate(p, GatewayError(AttemptError(u)), NoRecord, st)
       ELSE IF out.exc = NoExc
       THEN /\ pc' = [pc EXCEPT ![p] = "insert"]
            /\ SetLocals(p, [st EXCEPT !.remarks = out.remarks])
            /\ UNCHANGED << exc, ret, idx, resume, results, log, returned >>
       ELSE IF Reraised(out.exc)
       THEN EndCandidate(p, out.exc, NoRecord, [st EXCEPT !.remarks = out.remarks])
       ELSE IF full_clean(failed, records) # NoExc
       THEN EndCandidate(p, Unexpected(out.exc), NoRecord, [st EXCEPT !.remarks = failed])
       ELSE /\ pc' = [pc EXCEPT ![p] = "insert"]
            /\ exc' = [exc EXCEPT ![p] = Unexpected(out.exc)]
            /\ SetLocals(p, [st EXCEPT !.remarks = failed])
            /\ UNCHANGED << ret, idx, resume, results, log, returned >>
    /\ UNCHANGED << records, op, job, seekers, limit, resume_arg, platform >>

\* super().save(): the INSERT, and the rest of analyze()
Insert(p) ==
    /\ pc[p] = "insert"
    /\ LET row == [remarks[p] EXCEPT !.id = FreshId(records)]
           integrity == Exc("IntegrityError", "UNIQUE constraint failed")
           failed == FailedRemarks(remarks[p], integrity, Duration(retry_count[p]))
       IN
       IF UniqueConstraintOk(remarks[p], records)
       THEN /\ records' = records \cup {row}
            /\ IF row.analysis_status = "completed"
               THEN EndCandidate(p, NoExc, row, [Locals(p) EXCEPT !.remarks = row])
               ELSE EndCandidate(p, exc[p], NoRecord, [Locals(p) EXCEPT !.remarks = row])
       ELSE /\ records' = records
            /\ IF remarks[p].analysis_status = "completed"
               THEN EndCandidate(p, Unexpected(integrity), NoRecord,
                                 [Locals(p) EXCEPT !.remarks = failed])
               ELSE EndCandidate(p, exc[p], NoRecord, Locals(p))
    /\ UNCHANGED << op, job, seekers, limit, resume_arg, platform >>

\* ------------------------------------------------------ specifications
\* the arguments the callers pass
JobArgs == {None} \cup JobIds
JobIdArgs == JobIds \cup {UnknownJobId}
SeekerArgs == {None, 1}
ResumeArgs == {None, 2}
\* lists of distinct candidates, of at most MaxBatch
CandidateLists ==
    {ss \in UNION {[1 .. n -> SeekerIds] : n \in 0 .. MaxBatch} :
        \A a, b \in DOMAIN ss : a # b => ss[a] # ss[b]}

\* one caller, single analyses of one candidate, every argument and every
\* upstream answer
Next ==
    \E p \in {"p1"} :
        \/ \E j \in JobArgs, s \in SeekerArgs, r \in ResumeArgs : Analyze(p, j, s, r)
        \/ \E j \in JobIdArgs, s \in SeekerArgs : AnalyzeApplication(p, j, s)
        \/ \E u \in UpstreamOutcomes : CallOpenAI(p, u)
        \/ Insert(p)

Spec == Init /\ [][Next]_vars

\* an upstream that failed an attempt of a call fails its later attempts too
Sticky(p, outcomes) ==
    IF retry_count[p] = 0 THEN outcomes ELSE {u \in outcomes : AttemptFailed(u)}

RaceOutcomes ==
    {u \in UpstreamOutcomes :
        \/ u.kind = "raise" /\ u.err = "APITimeoutError"
        \/ u.kind = "text" /\ u.text = << "J" >> /\ u.doc = Dict(BasePayload)
        \/ u.kind = "text" /\ FenceSearch(u.text)}

\* the callers race: single analyses of the candidates of job 1
NextRace ==
    \E p \in Procs :
        \/ \E s \in SeekerIds : Analyze(p, 1, s, None)
        \/ \E s \in SeekerIds : AnalyzeApplication(p, 1, s)
        \/ \E u \in Sticky(p, RaceOutcomes) : CallOpenAI(p, u)
        \/ Insert(p)

SpecRace == Init /\ [][NextRace]_vars

BatchOutcomes ==
    {u \in UpstreamOutcomes :
        \/ u.kind = "raise" /\ u.err = "APITimeoutError"
        \/ /\ u.kind = "text" /\ u.text = << "J" >>
           /\ u.doc \in {Dict(Payload(80, "excellent")), Dict(Payload(40, "excellent")),
                         Dict(Payload(39, "poor"))}}

\* the upstream answers with a document of SchemaDocs, or times out
SchemaOutcomes ==
    {[kind |-> "raise", err |-> "APITimeoutError", text |-> << >>, doc |-> ListDoc]}
    \cup {[kind |-> "text", err |-> "", text |-> << "J" >>, doc |-> d] : d \in SchemaDocs}

\* one caller, single analyses of one pair, answers that probe the validator
NextSchema ==
    \E p \in {"p1"} :
        \/ \E r \in ResumeArgs : Analyze(p, 1, 1, r)
        \/ AnalyzeApplication(p, 1, 1)
        \/ \E u \in Sticky(p, SchemaOutcomes) : CallOpenAI(p, u)
        \/ Insert(p)

SpecSchema == Init /\ [][NextSchema]_vars

\* one caller, batches and rankings
NextBatch ==
    \E p \in {"p1"} :
        \/ \E j \in {1, 2}, ss \in CandidateLists : Batch(p, "batch", j, ss, 0)
        \/ \E j \in {1, 2}, ss \in CandidateLists, lim \in 0 .. MaxLimit :
               Batch(p, "top", j, ss, lim)
        \/ \E u \in Sticky(p, BatchOutcomes) : CallOpenAI(p, u)
        \/ Insert(p)

SpecBatch == Init /\ [][NextBatch]_vars


\* ---------------------------------------------------------------- claims
\* the rows of the table for the pair (j, s)
RecordsFor(j, s) == {r \in records : r.job_post = j /\ r.job_seeker = s}

\* caller p's analyze() ran (the preconditions passed) and has ended
AnalyzeEnded(p) ==
    op[p] \in {"analyze", "application"} /\ pc[p] = "idle" /\ remarks[p] # NoRecord

\* C1: every analyze() that passed the input preconditions leaves a record for its
\* pair in storage when it ends: completed on success, failed on any pipeline
\* failure; the record is never absent after a failure.
C1_RecordAfterEveryAnalyze ==
    \A p \in Procs :
        AnalyzeEnded(p) =>
            \E r \in RecordsFor(job[p], seekers[p][1]) :
                r.analysis_status = IF exc[p] = NoExc THEN "completed" ELSE "failed"

\* C2: for a pair that already has a completed record, analyze_application returns
\* that record, changes no row, makes no upstream call and leaves exactly one
\* record for the pair.
C2_RepeatReturnsExisting ==
    [][\A p \in Procs, j \in JobIdArgs, s \in SeekerArgs :
          ( /\ AnalyzeApplication(p, j, s)
            /\ \E r \in RecordsFor(j, s) : r.analysis_status = "completed" )
          => ( /\ records' = records
               /\ pc'[p] = "idle"
               /\ exc'[p] = NoExc
               /\ calls'[p] = 0
               /\ ret'[p] \in RecordsFor(j, s)
               /\ ret'[p].analysis_status = "completed"
               /\ Cardinality({r \in records' : r.job_post = j /\ r.job_seeker = s}) = 1 )
      ]_vars

\* a repeated analyze_application call has returned the stored record without
\* an upstream call
C2_Witness ==
    \E p \in Procs :
        /\ op[p] = "application" /\ pc[p] = "idle" /\ exc[p] = NoExc
        /\ calls[p] = 0
        /\ ret[p] \in records /\ ret[p].analysis_status = "completed"

\* C3: under any interleaving of concurrent invocations for the same pair, storage
\* never holds more than one record for the pair.
C3_OneRecordPerPair ==
    \A j \in JobIds, s \in SeekerIds : Cardinality(RecordsFor(j, s)) <= 1

\* two callers raced for one pair: both passed validate_unique(), one INSERT was
\* rejected by the constraint
C3_Witness ==
    \E p \in Procs :
        /\ AnalyzeEnded(p)
        /\ remarks[p].error_message = "UNIQUE constraint failed"
        /\ Cardinality(RecordsFor(job[p], seekers[p][1])) = 1

\* the pair of caller p's current (or last) single analysis
PairRecords(p) == RecordsFor(job[p], seekers[p][1])

\* the upstream answer u parses to a JSON document
Parses(u) ==
    /\ ~ AttemptFailed(u)
    /\ _clean_json_response(Strip(u.text)).exc = NoExc
    /\ JsonLoads(_clean_json_response(Strip(u.text)).text, u.doc).exc = NoExc

\* C4: one analyze() makes at most MAX_RETRIES upstream calls; a call is made only
\* while every earlier call of the invocation failed; an answer (whatever parsing
\* and validation make of it) ends the calls; after two failures a valid third
\* answer completes the analysis; a failed third call ends the invocation with the
\* gateway's error, nothing stored.
C4_BoundedRetries ==
    [][\A p \in Procs :
          /\ calls'[p] <= MAX_RETRIES
          /\ calls'[p] # calls[p] =>
                \/ calls'[p] = 0 /\ pc[p] = "idle"
                \/ /\ pc[p] = "gateway"
                   /\ retry_count[p] = calls[p]
                   /\ calls'[p] = calls[p] + 1
          /\ \A u \in UpstreamOutcomes :
                CallOpenAI(p, u) =>
                    /\ ~ AttemptFailed(u) => pc'[p] # "gateway"
                    /\ (AttemptFailed(u) /\ calls[p] < MAX_RETRIES - 1) =>
                           /\ pc'[p] = "gateway"
                           /\ retry_count'[p] = calls'[p]
                    /\ (AttemptFailed(u) /\ calls[p] = MAX_RETRIES - 1) =>
                           /\ pc'[p] = "idle"
                           /\ calls'[p] = MAX_RETRIES
                           /\ exc'[p] \in {GatewayError(AttemptError(u)),
                                           Wrapped(GatewayError(AttemptError(u)))}
                           /\ records' = records
                    /\ ( /\ calls[p] = MAX_RETRIES - 1
                         /\ u.kind = "text" /\ u.text = << "J" >>
                         /\ u.doc = Dict(BasePayload)
                         /\ PairRecords(p) = {} ) =>
                           /\ pc'[p] = "insert"
                           /\ calls'[p] = MAX_RETRIES
                           /\ remarks'[p].analysis_status = "completed"
                           /\ remarks'[p].fit_score = BasePayload["fit_score"].n
          /\ (Insert(p) /\ remarks[p].analysis_status = "completed") =>
                /\ exc'[p] = NoExc
                /\ ret'[p] \in records' \ records
                /\ ret'[p].fit_score = remarks[p].fit_score
      ]_vars

\* two attempts failed, the third answered, and the analysis completed
C4_Witness ==
    \E p \in Procs :
        /\ op[p] = "analyze" /\ pc[p] = "idle" /\ exc[p] = NoExc
        /\ calls[p] = MAX_RETRIES /\ retry_count[p] = MAX_RETRIES - 1
        /\ ret[p] \in records /\ ret[p].analysis_status = "completed"

\* the arguments of caller p's analysis violate a precondition
PreconditionViolated(p) ==
    \/ job[p] = None
    \/ seekers[p][1] = None
    \/ JobTitle(job[p]) = ""
    \/ JobDescription(job[p]) = ""

\* C5: creating an analysis with a missing job post, a missing candidate (with or
\* without a resume argument) or an empty title or description fails with
\* ValidationError, with no upstream call and no record.
C5_PreconditionsRaiseValidationError ==
    \A p \in Procs :
        (op[p] = "analyze" /\ pc[p] = "idle" /\ PreconditionViolated(p)) =>
            /\ exc[p].cls = "ValidationError"
            /\ calls[p] = 0
            /\ PairRecords(p) = {}

\* C6: every completed record has a fit_level consistent with its fit_score:
\* fit_score >= 80 implies excellent or good, fit_score < 40 implies not excellent.
C6_FitLevelConsistent ==
    \A r \in records :
        r.analysis_status = "completed" =>
            /\ r.fit_score >= 80 => r.fit_level \in {"excellent", "good"}
            /\ r.fit_score < 40 => r.fit_level # "excellent"

\* a schema-valid answer whose fit_level contradicts its fit_score was refused by
\* save(), nothing stored for the pair
C6_Witness ==
    \E p \in Procs :
        /\ op[p] = "analyze" /\ pc[p] = "idle"
        /\ exc[p].cls = "ValidationError" /\ exc[p].keys = {"fit_level"}
        /\ remarks[p].fit_score >= 80 /\ remarks[p].fit_level = "poor"
        /\ PairRecords(p) = {}

\* the five score columns of a row
Scores(r) ==
    { r.fit_score, r.skills_match_score, r.experience_match_score,
      r.education_match_score, r.location_match_score }

\* C7: every completed record has its five scores within [0, 100].
C7_ScoresInRange ==
    \A r \in records :
        r.analysis_status = "completed" => \A v \in Scores(r) : 0 <= v /\ v <= 100

\* a completed record holds both bounds, and an answer with a score out of range
\* was rejected
C7_Witness ==
    \E p \in Procs :
        /\ pc[p] = "idle" /\ exc[p].keys = {"fit_score"}
        /\ exc[p].msg \in {"Invalid score", "Application analysis failed"}
        /\ \E r \in records :
              /\ r.analysis_status = "completed"
              /\ r.skills_match_score = 100 /\ r.experience_match_score = 0

\* the entries of the sequence ss at the positions where lg is TRUE, in order
RECURSIVE Selected(_, _)
Selected(ss, lg) ==
    IF ss = << >> \/ lg = << >> THEN << >>
    ELSE IF Head(lg) THEN << Head(ss) >> \o Selected(Tail(ss), Tail(lg))
    ELSE Selected(Tail(ss), Tail(lg))

Completed(rs) == {rs[i] : i \in {k \in DOMAIN rs : rs[k].analysis_status = "completed"}}

\* C9: get_top_matches returns at most limit records, all completed, in
\* non-increasing fit_score order, and every completed result it leaves out scores
\* no more than any it returns: the top-limit prefix of the completed results.
C9_TopMatches ==
    \A p \in Procs :
        (op[p] = "top" /\ pc[p] = "idle") =>
            LET out == returned[p]
                done == Completed(results[p])
                kept == {out[i] : i \in DOMAIN out}
            IN /\ Len(out) <= limit[p]
               /\ kept \subseteq done
               /\ Cardinality(kept) = Len(out)
               /\ Len(out) = IF limit[p] < Cardinality(done) THEN limit[p]
                             ELSE Cardinality(done)
               /\ \A i, k \in DOMAIN out : i < k => out[i].fit_score >= out[k].fit_score
               /\ \A r \in done \ kept : \A x \in kept : x.fit_score >= r.fit_score

\* a ranking of two successes, the better one analysed last, cut to one
C9_Witness ==
    \E p \in Procs :
        /\ op[p] = "top" /\ pc[p] = "idle" /\ limit[p] = 1
        /\ Len(results[p]) = 2
        /\ results[p][1].fit_score < results[p][2].fit_score
        /\ returned[p] = << results[p][2] >>

\* the required fields the document of the answer u lacks
Lacking(u) == {f \in Fields : u.doc.kind = "dict" /\ u.doc.d[f] = Absent}

\* C10: a parsed payload that lacks any one of the seventeen response fields is
\* rejected by the validator for a field it lacks, and the invocation ends with
\* that error: no row is written and no completed record comes of it.
C10_MissingFieldRejected ==
    [][\A p \in Procs, u \in UpstreamOutcomes :
          (CallOpenAI(p, u) /\ Parses(u) /\ Lacking(u) # {}) =>
              /\ _validate_ai_output(u.doc).msg = "Missing required field"
              /\ _validate_ai_output(u.doc).keys \subseteq Lacking(u)
              /\ pc'[p] = "idle"
              /\ exc'[p] \in {_validate_ai_output(u.doc), Wrapped(_validate_ai_output(u.doc))}
              /\ ret'[p] = NoRecord
              /\ remarks'[p].analysis_status # "completed"
              /\ records' = records
      ]_vars

\* a payload without its last field was rejected
C10_Witness ==
    \E p \in Procs :
        /\ op[p] = "analyze" /\ pc[p] = "idle"
        /\ exc[p].msg = "Missing required field"
        /\ exc[p].keys = {"salary_expectation_alignment"}
        /\ remarks[p].analysis_status = "pending"

\* a JSON number within [0, 100]
NumberInRange(v) == v.t = "num" /\ 0 <= v.n /\ v.n <= 100

\* the values the answers of SchemaDocs put into a score field
ScoreProbes == ScoreValueInputs \cup {JNum(x) : x \in BadScoreInputs}

\* C11: for each of the five score fields, the validator accepts a payload that is
\* valid elsewhere iff the field's value is a number within [0, 100]: it accepts 0
\* and 100, and rejects 150, -5, a string, a boolean and null for that field.
C11_ScoreAcceptedIffNumberInRange ==
    [][\A p \in Procs, u \in SchemaOutcomes, i \in DOMAIN score_fields :
          ( /\ CallOpenAI(p, u)
            /\ u.kind = "text"
            /\ u.doc \in {Dict(With(BasePayload, score_fields[i], v)) : v \in ScoreProbes} )
          => IF NumberInRange(u.doc.d[score_fields[i]])
             THEN _validate_ai_output(u.doc) = NoExc
             ELSE /\ _validate_ai_output(u.doc)
                        = ExcAt("AIMatcherException", "Invalid score", {score_fields[i]})
                  /\ pc'[p] = "idle"
                  /\ exc'[p] # NoExc
                  /\ records' = records
      ]_vars

\* the answers of SchemaDocs that differ in their fit_level
FitLevelProbes ==
    {Dict(Payload(40, fl)) : fl \in OtherFitLevelInputs \cup FitLevelInputs}
    \cup {Dict(With(BasePayload, "fit_level", JNull))}

\* C12: the validator accepts a payload's fit_level iff it is one of the five enum
\* values excellent, good, moderate, poor, unknown; every other value is rejected.
C12_FitLevelAcceptedIffEnum ==
    [][\A p \in Procs, u \in SchemaOutcomes :
          (CallOpenAI(p, u) /\ u.kind = "text" /\ u.doc \in FitLevelProbes)
          => IF u.doc.d["fit_level"].t = "str" /\ u.doc.d["fit_level"].s \in FitLevelChoices
             THEN _validate_ai_output(u.doc) = NoExc
             ELSE /\ _validate_ai_output(u.doc)
                        = ExcAt("AIMatcherException", "Invalid fit_level", {"fit_level"})
                  /\ pc'[p] = "idle"
                  /\ exc'[p] # NoExc
                  /\ records' = records
      ]_vars

\* the answers of SchemaDocs that differ in the boolean field f
BooleanProbes(f) ==
    {Dict(With(BasePayload, f, v)) : v \in BooleanValueInputs \cup {JBool(TRUE)}}

\* C13: the validator rejects every payload whose is_fit or interview_recommendation
\* is not a JSON boolean (the string "true", the number 1, null) and accepts true
\* and false, which then reach the remarks object as they are.
C13_BooleansMustBeBoolean ==
    [][\A p \in Procs, u \in SchemaOutcomes, i \in DOMAIN boolean_fields :
          (CallOpenAI(p, u) /\ u.kind = "text" /\ u.doc \in BooleanProbes(boolean_fields[i]))
          => IF u.doc.d[boolean_fields[i]].t = "bool"
             THEN /\ _validate_ai_output(u.doc) = NoExc
                  /\ PairRecords(p) = {} =>
                        /\ pc'[p] = "insert"
                        /\ remarks'[p][boolean_fields[i]] = u.doc.d[boolean_fields[i]]
             ELSE /\ _validate_ai_output(u.doc)
                        = ExcAt("AIMatcherException", "Field must be boolean",
                                {boolean_fields[i]})
                  /\ pc'[p] = "idle"
                  /\ exc'[p] # NoExc
                  /\ remarks'[p].analysis_status # "completed"
                  /\ records' = records
      ]_vars

\* an answer with is_fit false was stored, and a later answer whose
\* interview_recommendation is no boolean was rejected
C13_Witness ==
    \E p \in Procs :
        /\ op[p] = "analyze" /\ pc[p] = "idle"
        /\ exc[p] = ExcAt("AIMatcherException", "Field must be boolean",
                          {"interview_recommendation"})
        /\ \E r \in records : r.analysis_status = "completed" /\ r.is_fit = JBool(FALSE)

\* C14: the normalizer is idempotent: for every text the gateway hands over that
\* it normalizes, normalizing the result again gives the same result (also when
\* the text holds several fences, and when the result is empty).
C14_NormalizerIdempotent ==
    [][\A p \in Procs, u \in UpstreamOutcomes :
          ( /\ CallOpenAI(p, u)
            /\ ~ AttemptFailed(u)
            /\ _clean_json_response(Strip(u.text)).exc = NoExc )
          => _clean_json_response(_clean_json_response(Strip(u.text)).text)
                 = _clean_json_response(Strip(u.text))
      ]_vars

\* the content of the upstream response u is None, empty or whitespace only
EmptyContent(u) == u.kind = "none" \/ (u.kind = "text" /\ Strip(u.text) = << >>)

\* C15: the gateway never returns an empty text: a response whose content is
\* None, empty or whitespace only is a failed attempt (retried while attempts are
\* left, the gateway's error after the last one), and a non-empty text is returned
\* verbatim.
C15_GatewayNeverReturnsEmpty ==
    [][\A p \in Procs, u \in UpstreamOutcomes :
          (CallOpenAI(p, u) /\ u.kind # "raise")
          => IF EmptyContent(u)
             THEN IF calls[p] < MAX_RETRIES - 1
                  THEN pc'[p] = "gateway" /\ retry_count'[p] = retry_count[p] + 1
                  ELSE /\ pc'[p] = "idle"
                       /\ exc'[p] \in {GatewayError(AttemptError(u)),
                                       Wrapped(GatewayError(AttemptError(u)))}
             ELSE GatewayReturn(u) = u.text /\ GatewayReturn(u) # << >>
      ]_vars

\* C16: every stored record with status failed has a non-empty error_message, its
\* analysis_duration_seconds set and its five scores null; and every stored record
\* with a non-empty error_message has status failed.
C16_FailedRecordShape ==
    \A r \in records :
        /\ r.analysis_status = "failed" =>
              /\ r.error_message # ""
              /\ r.analysis_duration_seconds # Null
              /\ Scores(r) = {Null}
        /\ r.error_message # "" => r.analysis_status = "failed"

\* a failed record is stored, and a caller whose INSERT of a populated record was
\* rejected marked its object failed without storing it
C16_Witness ==
    /\ \E r \in records : r.analysis_status = "failed" /\ r.error_message = "no such group"
    /\ \E p \in Procs :
          /\ pc[p] = "idle" /\ remarks[p].analysis_status = "failed"
          /\ remarks[p].fit_score # Null
          /\ remarks[p] \notin records

\* the human-review fields of the row r hold their defaults
NotReviewed(r) ==
    r.reviewed_by_human = FALSE /\ r.human_override = FALSE /\ r.human_remarks = ""

\* C17: no pipeline operation writes the human-review fields: every row it creates
\* (and every remarks object it works on) has reviewed_by_human and human_override
\* false and human_remarks empty, and no step changes an existing row.
C17_ReviewFieldsUntouched ==
    [][ /\ \A r \in records : r \in records'
        /\ \A r \in records' \ records : NotReviewed(r)
        /\ \A p \in Procs : NotReviewed(remarks'[p])
      ]_vars

\* a stored row was read again by a later analyze_application, the review fields
\* as they were
C17_Witness ==
    \E p \in Procs, r \in records :
        /\ op[p] = "application" /\ pc[p] = "idle"
        /\ ret[p] = r /\ remarks[p] = NoRecord
        /\ NotReviewed(r)

\* the upstream answers with the valid, score-consistent BasePayload
ValidAnswer(u) == u.kind = "text" /\ u.text = << "J" >> /\ u.doc = Dict(BasePayload)

\* C18: failure is not permanent for a pair: when the pair has a stored failed
\* record and a later analyze() or analyze_application() gets a schema-valid,
\* score-consistent answer, the analysis goes on to store a completed record (its
\* remarks object is completed and the INSERT comes next).
C18_FailedPairCanBeReanalyzed ==
    [][\A p \in Procs, u \in UpstreamOutcomes :
          ( /\ CallOpenAI(p, u)
            /\ ValidAnswer(u)
            /\ \E r \in PairRecords(p) : r.analysis_status = "failed" )
          => /\ pc'[p] = "insert"
             /\ exc'[p] = NoExc
             /\ remarks'[p].analysis_status = "completed"
      ]_vars

\* a status change the lifecycle allows: none, pending to completed, pending to failed
StatusStep(a, b) == a = b \/ (a = "pending" /\ b \in {"completed", "failed"})

\* C19: the remarks object of an invocation starts in status pending, its status
\* only goes from pending to completed or from pending to failed and never changes
\* after that, no step changes a stored row, and no status is ever skipped.
C19_StatusLifecycle ==
    [][\A p \in Procs :
          /\ (pc[p] = "idle" /\ pc'[p] # "idle") => remarks'[p].analysis_status = "pending"
          /\ pc[p] # "idle" =>
                StatusStep(remarks[p].analysis_status, remarks'[p].analysis_status)
          /\ remarks'[p].analysis_status # "skipped"
          /\ \A r \in records : r \in records'
          /\ \A r \in records' : r.analysis_status \in {"completed", "failed"}
      ]_vars

\* what analyze() makes of the answer u of caller p's current attempt
StageOutcome(p, u) ==
    AnalyzeBody([text |-> GatewayReturn(u), doc |-> u.doc], remarks[p], records,
                Duration(retry_count[p]))

\* the exception of the failure path's remarks.save() after the outcome out
FailedSaveError(p, out) ==
    full_clean(FailedRemarks(out.remarks, out.exc, Duration(retry_count[p])), records)

\* C20: when a stage fails with an unexpected exception and saving the failed
\* record fails too, the exception of that save is the one analyze() raises.
C20_FailedSaveErrorPropagates ==
    [][\A p \in Procs, u \in UpstreamOutcomes :
          ( /\ CallOpenAI(p, u)
            /\ ~ AttemptFailed(u)
            /\ StageOutcome(p, u).exc # NoExc
            /\ ~ Reraised(StageOutcome(p, u).exc)
            /\ FailedSaveError(p, StageOutcome(p, u)) # NoExc )
          => exc'[p] \in {FailedSaveError(p, StageOutcome(p, u)),
                          Wrapped(FailedSaveError(p, StageOutcome(p, u)))}
      ]_vars

\* the row r holds the values of the response object d in its score, boolean and
\* fit_level fields and in matching_skills
HoldsResponse(r, d) ==
    /\ \A i \in DOMAIN score_fields : r[score_fields[i]] = d[score_fields[i]].n
    /\ \A i \in DOMAIN boolean_fields : r[boolean_fields[i]] = d[boolean_fields[i]]
    /\ r.fit_level = d["fit_level"].s
    /\ r.matching_skills = d["matching_skills"]

\* C21: a record stored as completed holds the validated response's values in its
\* five scores, is_fit, interview_recommendation and fit_level (and matching_skills),
\* has analyzed_at set and an empty error_message: the object that goes to the
\* INSERT holds them, and the INSERT stores that object as it is.
C21_CompletedHoldsResponse ==
    [][\A p \in Procs :
          /\ \A u \in SchemaOutcomes :
                ( /\ CallOpenAI(p, u)
                  /\ pc'[p] = "insert"
                  /\ remarks'[p].analysis_status = "completed" )
                => /\ _validate_ai_output(u.doc) = NoExc
                   /\ HoldsResponse(remarks'[p], u.doc.d)
                   /\ remarks'[p].analyzed_at
                   /\ remarks'[p].error_message = ""
          /\ Insert(p) =>
                \A r \in records' \ records : r = [remarks[p] EXCEPT !.id = r.id]
          /\ \A r \in records' :
                r.analysis_status = "completed" =>
                    /\ r.analyzed_at /\ r.error_message = ""
                    /\ Null \notin Scores(r)
      ]_vars

\* a response with fit_score 100 and is_fit true was stored with those values
C21_Witness ==
    \E r \in records :
        /\ r.analysis_status = "completed"
        /\ HoldsResponse(r, With(BasePayload, "fit_score", JNum(100)))
        /\ r.analyzed_at /\ r.error_message = ""

\* the texts of UpstreamTexts that hold a fenced block around the document: an
\* opening fence (bare, or with a language tag), the document, a closing fence
FencedTexts ==
    { << "T", "T", "T", "N", "J", "N", "T", "T", "T" >>,
      << "T", "T", "T", "x", "N", "J", "N", "T", "T", "T" >> }

\* the text t holds no backtick
NoFence(t) == \A i \in DOMAIN t : t[i] # "T"

\* C22: for a response with a fenced block _clean_json_response returns the
\* interior of the block without raising; for a response without a fence it
\* returns the text without its leading and trailing whitespace.
C22_FencedInteriorExtracted ==
    [][\A p \in Procs, u \in UpstreamOutcomes :
          (CallOpenAI(p, u) /\ ~ AttemptFailed(u) /\ GatewayReturn(u) # << >>)
          => /\ u.text \in FencedTexts =>
                    _clean_json_response(GatewayReturn(u)) = [exc |-> NoExc, text |-> << "J" >>]
             /\ NoFence(u.text) =>
                    _clean_json_response(GatewayReturn(u)) = [exc |-> NoExc, text |-> Strip(u.text)]
      ]_vars

\* the upstream outcomes that make an attempt of _call_openai_api fail
FailedOutcomes == {u \in UpstreamOutcomes : AttemptFailed(u)}

\* the class of the error the attempt with outcome u ends with
ErrorClass(u) == IF u.kind = "raise" THEN u.err ELSE "AIMatcherException"

\* C23: when the third attempt fails as well, analyze() raises one error, the
\* gateway's, and it carries the error of the third attempt (the step's own
\* outcome u), whatever the first and the second attempt failed with.
C23_LastErrorReported ==
    [][\A p \in Procs, u \in FailedOutcomes :
          (CallOpenAI(p, u) /\ op[p] = "analyze" /\ calls[p] = MAX_RETRIES - 1)
          => /\ pc'[p] = "idle"
             /\ calls'[p] = MAX_RETRIES
             /\ ret'[p] = NoRecord
             /\ exc'[p].cls = "AIMatcherException"
             /\ exc'[p].msg = "OpenAI API failed after MAX_RETRIES attempts"
             /\ exc'[p].cause = ErrorClass(u)
      ]_vars

\* three attempts were made and the error carries a rate-limit failure
C23_Witness ==
    \E p \in Procs :
        /\ op[p] = "analyze" /\ pc[p] = "idle" /\ calls[p] = MAX_RETRIES
        /\ exc[p].msg = "OpenAI API failed after MAX_RETRIES attempts"
        /\ exc[p].cause = "RateLimitError"

\* the seconds slept after failed attempt k
Wait(k) == IF k = 1 THEN 1 ELSE 2

\* the seconds slept in a run whose first f attempts failed
SumOfWaits(f) == IF f = 0 THEN 0 ELSE IF f = 1 THEN 1 ELSE 3

\* C24: after failed attempt k (k = 1, 2) the gateway sleeps 2^(k-1) seconds and
\* attempt k+1 follows; nothing is slept before the first attempt nor after the
\* failed third one; the duration stored by a run whose first f attempts failed is
\* at least the sum of the f waits.
C24_BackoffOrdering ==
    [][\A p \in Procs :
          /\ \A u \in FailedOutcomes :
                CallOpenAI(p, u) =>
                    LET k == retry_count[p] + 1 IN
                    /\ k \in {1, 2} =>
                          /\ pc'[p] = "gateway"
                          /\ retry_count'[p] = k
                          /\ Slept(retry_count'[p]) - Slept(retry_count[p]) = Wait(k)
                    /\ k >= MAX_RETRIES => retry_count'[p] # k
          /\ (pc[p] = "idle" /\ pc'[p] = "gateway") => Slept(retry_count'[p]) = 0
          /\ Insert(p) =>
                \A r \in records' \ records :
                    r.analysis_status = "completed"
                    => r.analysis_duration_seconds >= SumOfWaits(retry_count[p])
      ]_vars

\* a stored analysis whose first two attempts failed: 1 + 2 seconds of waits
C24_Witness ==
    \E p \in Procs, r \in records :
        /\ pc[p] = "idle" /\ retry_count[p] = 2 /\ ret[p] = r
        /\ r.analysis_status = "completed" /\ r.analysis_duration_seconds >= 3

\* the keys of the resume facet of the prompt
resume_keys ==
    << "skills_data", "education_data", "work_experience_data", "certifications_data",
       "projects_data" >>

\* the stored resumes: resume 1 is the default resume of candidate 1, resume 2 is
\* the one a caller passes; JSON columns, a list by default
ResumeRow(r) ==
    IF r = 1
    THEN [skills_data |-> JList(2), education_data |-> JList(1),
          work_experience_data |-> JList(1), certifications_data |-> JList(0),
          projects_data |-> JList(0)]
    ELSE [skills_data |-> JList(1), education_data |-> JList(0),
          work_experience_data |-> JList(0), certifications_data |-> JList(0),
          projects_data |-> JList(1)]

\* v or []
OrEmptyList(v) ==
    IF v.t = "null" \/ (v.t \in {"list", "num"} /\ v.n = 0) \/ (v.t = "str" /\ v.s = "")
    THEN JList(0) ELSE v

\* the structure _prepare_resume_data returns without a resume
EmptyResumeData == [k \in {resume_keys[i] : i \in DOMAIN resume_keys} |-> JList(0)]

\* _prepare_resume_data, self.resume being the resume r
_prepare_resume_data(r) ==
    IF r = None THEN EmptyResumeData
    ELSE [k \in {resume_keys[i] : i \in DOMAIN resume_keys} |-> OrEmptyList(ResumeRow(r)[k])]

\* C25: an analysis made without a resume argument puts the all-empty resume
\* facet into its prompt, whatever resumes the candidate has stored.
C25_NoResumeArgumentEmptyFacet ==
    \A p \in Procs :
        (pc[p] = "gateway" /\ op[p] = "analyze" /\ resume_arg[p] = None)
        => _prepare_resume_data(resume[p]) = EmptyResumeData

\* the upstream times out, answers with a valid document, or with a text the
\* fenced-block search matches (an unexpected error, which leaves a failed row)
RebatchOutcomes ==
    {u \in UpstreamOutcomes :
        \/ u.kind = "raise" /\ u.err = "APITimeoutError"
        \/ u.kind = "text" /\ u.text = << "J" >> /\ u.doc = Dict(BasePayload)
        \/ u.kind = "text" /\ FenceSearch(u.text)}

\* one caller, batches and rankings of job 1 repeated over the same candidates
NextRebatch ==
    \E p \in {"p1"} :
        \/ \E ss \in CandidateLists : Batch(p, "batch", 1, ss, 0)
        \/ \E ss \in CandidateLists, lim \in 1 .. MaxLimit : Batch(p, "top", 1, ss, lim)
        \/ \E u \in Sticky(p, RebatchOutcomes) : CallOpenAI(p, u)
        \/ Insert(p)

SpecRebatch == Init /\ [][NextRebatch]_vars

\* the candidate the batch of caller p is analysing
CurrentCandidate(p) == seekers[p][idx[p]]

\* C26: a batch or ranking whose current candidate already has a record for the
\* job (of any status) still calls the upstream, but its save is rejected by the
\* uniqueness check before any INSERT: the table is unchanged, nothing is added
\* to the results, and the candidate is not in the returned list; the rows a
\* batch does insert are for pairs without a record.
C26_BatchNeverAddsSecondRecord ==
    [][\A p \in Procs :
          /\ \A u \in RebatchOutcomes :
                ( /\ CallOpenAI(p, u) /\ op[p] \in {"batch", "top"}
                  /\ RecordsFor(job[p], CurrentCandidate(p)) # {} )
                => /\ records' = records
                   /\ pc'[p] # "insert"
                   /\ results'[p] = results[p]
                   /\ \A i \in DOMAIN results'[p] :
                          results'[p][i].job_seeker # CurrentCandidate(p)
                   /\ pc'[p] = "idle" =>
                          \A i \in DOMAIN returned'[p] :
                              returned'[p][i].job_seeker # CurrentCandidate(p)
                   /\ ~ AttemptFailed(u) => log'[p][idx[p]] = FALSE
          /\ (Insert(p) /\ op[p] \in {"batch", "top"}) =>
                \A r \in records' \ records : RecordsFor(r.job_post, r.job_seeker) = {}
          /\ \A r1, r2 \in records' :
                (r1.job_post = r2.job_post /\ r1.job_seeker = r2.job_seeker) => r1 = r2
      ]_vars

\* a batch over candidate 1, whose pair had a failed row: one upstream call was
\* answered and populated the remarks object, the candidate was logged as failed,
\* the stored row is still the failed one and the batch returned nothing
C26_Witness ==
    \E p \in Procs :
        /\ op[p] = "batch" /\ pc[p] = "idle" /\ seekers[p] = << 1 >>
        /\ calls[p] = 1 /\ log[p] = << FALSE >> /\ returned[p] = << >>
        /\ remarks[p].analysis_status = "completed"
        /\ \E r \in RecordsFor(1, 1) : r.analysis_status = "failed"

\* ------------------------------------------------ job applications
\* the job posts the candidate applies to
ApplyJobs == 1 .. DailySwipeLimit + 1

\* JobSeekerSubscription.is_active, now being between start_date and end_date
is_active(sub) == sub.status = "active"

\* _reset_daily_swipes on the in-memory row sub on the day day: the row after it,
\* and whether it was saved (update_fields daily_swipes_used, swipe_reset_date)
_reset_daily_swipes(sub, day) ==
    IF sub.swipe_reset_date < day
    THEN [sub |-> [sub EXCEPT !.daily_swipes_used = 0, !.swipe_reset_date = day],
          saved |-> TRUE]
    ELSE [sub |-> sub, saved |-> FALSE]

\* daily_swipes_used < plan.daily_swipe_limit, after _reset_daily_swipes
can_swipe_job(sub) == sub.daily_swipes_used < DailySwipeLimit

\* increment_swipe on the in-memory row sub, after _reset_daily_swipes
increment_swipe(sub) == [sub EXCEPT !.daily_swipes_used = @ + 1]

\* job_seeker.resumes.filter(is_default=True).first(): the default resumes of
\* the profile in primary-key order, NoResume when there is none
FirstDefault(profile) ==
    LET ds == {r \in resumes : r.profile = profile /\ r.is_default} IN
    IF ds = {} THEN NoResume ELSE CHOOSE r \in ds : \A x \in ds : r.id <= x.id

\* another caller's transaction has updated the subscription row and not committed
RowLocked(p) == \E q \in Procs \ {p} : apply[q].reset

\* the request of caller p ends with the response code
ApplyEnd(p, code) == apply' = [apply EXCEPT ![p] = [IdleApply EXCEPT !.response = code]]

\* the day passes
NextDay ==
    /\ today < MaxDay
    /\ today' = today + 1
    /\ UNCHANGED << pipeline, subscription, applications, apply, resumes, saving,
                    followers, followers_count, likes, likes_count, liking >>

\* JobApplicationCreateView.create for job post j with status st, up to the
\* INSERT: the status check, the serializer, the subscription and swipe checks and
\* the default resume; an early return commits the reset of the counters
ApplyBegin(p, j, st) ==
    /\ apply[p].pc = "idle"
    /\ LET r == _reset_daily_swipes(subscription, today)
           sub == IF st = "applied" THEN r.sub ELSE subscription
           saved == st = "applied" /\ r.saved
           default_resume == FirstDefault(1)
       IN
       IF st \notin {"applied", "user_rejected"} \/ j \notin ApplyJobs
       THEN ApplyEnd(p, 400) /\ UNCHANGED subscription
       ELSE IF ~ is_active(subscription)
       THEN ApplyEnd(p, 403) /\ UNCHANGED subscription
       ELSE /\ saved => ~ RowLocked(p)
            /\ IF st = "applied" /\ ~ can_swipe_job(sub)
               THEN ApplyEnd(p, 403) /\ subscription' = sub
               ELSE IF st = "applied" /\ (default_resume = NoResume
                                          \/ ~ default_resume.resume_pdf)
               THEN ApplyEnd(p, 400) /\ subscription' = sub
               ELSE /\ apply' = [apply EXCEPT ![p] =
                           [pc |-> "create", job_post |-> j, status |-> st,
                            daily_swipes_used |-> sub.daily_swipes_used,
                            swipe_reset_date |-> sub.swipe_reset_date,
                            reset |-> saved, response |-> 0]]
                    /\ UNCHANGED subscription
    /\ UNCHANGED << pipeline, today, applications, resumes, saving, followers,
                    followers_count, likes, likes_count, liking >>

\* the rest of create: JobApplication.objects.create (the unique constraint on
\* job_post and applicant), increment_swipe, and the commit; an IntegrityError
\* rolls the transaction back
ApplyCreate(p) ==
    /\ apply[p].pc = "create"
    /\ LET mem == [subscription EXCEPT !.daily_swipes_used = apply[p].daily_swipes_used,
                                       !.swipe_reset_date = apply[p].swipe_reset_date]
           r == _reset_daily_swipes(mem, today)
           after == increment_swipe(r.sub)
           application == [job_post |-> apply[p].job_post, status |-> apply[p].status,
                           applied_on |-> today]
       IN
       IF \E a \in applications : a.job_post = apply[p].job_post
       THEN ApplyEnd(p, 500) /\ UNCHANGED << subscription, applications >>
       ELSE IF apply[p].status = "applied"
       THEN /\ ~ RowLocked(p)
            /\ applications' = applications \cup {application}
            /\ subscription' =
                  [subscription EXCEPT
                      !.daily_swipes_used = after.daily_swipes_used,
                      !.swipe_reset_date = IF apply[p].reset \/ r.saved
                                           THEN after.swipe_reset_date ELSE @]
            /\ ApplyEnd(p, 201)
       ELSE /\ applications' = applications \cup {application}
            /\ ApplyEnd(p, 201)
            /\ UNCHANGED subscription
    /\ UNCHANGED << pipeline, today, resumes, saving, followers, followers_count, likes,
                    likes_count, liking >>

\* the candidate's apply requests, two at a time, over the days
NextApply ==
    \/ NextDay
    \/ \E p \in Procs :
          \/ \E j \in ApplyJobs \cup {None},
                st \in {"applied", "user_rejected", "hired"} : ApplyBegin(p, j, st)
          \/ ApplyCreate(p)

SpecApply == Init /\ [][NextApply]_vars

\* the applications with status applied created on the day d
AppliedOn(d) == {a \in applications : a.status = "applied" /\ a.applied_on = d}

\* C27: on no day more than plan.daily_swipe_limit applications with status
\* applied are created, and daily_swipes_used is the number of those created on
\* the day of the counter, which is at most the limit.
C27_SwipesWithinDailyLimit ==
    /\ \A d \in 1 .. MaxDay : Cardinality(AppliedOn(d)) <= DailySwipeLimit
    /\ subscription.daily_swipes_used = Cardinality(AppliedOn(subscription.swipe_reset_date))
    /\ subscription.daily_swipes_used <= DailySwipeLimit

\* ------------------------------------------------------ Resume.save
\* super().save() of the instance inst on the table: a new instance is inserted
\* (unique_together profile, title), a loaded one is written back, all fields
super_save(inst, table) ==
    IF inst.id = None
    THEN IF \E r \in table : r.profile = inst.profile /\ r.title = inst.title
         THEN [exc |-> "IntegrityError", table |-> table]
         ELSE [exc |-> "",
               table |-> table \cup
                   {[inst EXCEPT !.id = (inst.profile - 1) * MaxTitles + inst.title]}]
    ELSE [exc |-> "", table |-> {r \in table : r.id # inst.id} \cup {inst}]

\* Resume.save() of the instance inst, up to super().save(): when the instance is
\* the default one, the update that clears is_default on the profile's resumes
SaveBegin(p, inst) ==
    /\ saving[p].pc = "idle"
    /\ saving' = [saving EXCEPT ![p] = [pc |-> "insert", self |-> inst, exc |-> ""]]
    /\ resumes' = IF inst.is_default
                  THEN {[r EXCEPT !.is_default = IF r.profile = inst.profile
                                                 THEN FALSE ELSE @] : r \in resumes}
                  ELSE resumes
    /\ UNCHANGED << pipeline, today, subscription, applications, apply, followers,
                    followers_count, likes, likes_count, liking >>

\* the rest of Resume.save(): super().save(), then create_resume_pdf_via_openai
\* and, when it returned a path (pdf), the save of resume_pdf
SaveInsert(p, pdf) ==
    /\ saving[p].pc = "insert"
    /\ LET saved == super_save(saving[p].self, resumes)
           row == CHOOSE r \in saved.table :
                      r.profile = saving[p].self.profile /\ r.title = saving[p].self.title
       IN /\ resumes' = IF saved.exc = "" /\ pdf
                        THEN (saved.table \ {row}) \cup {[row EXCEPT !.resume_pdf = TRUE]}
                        ELSE saved.table
          /\ saving' = [saving EXCEPT ![p] = [IdleSave EXCEPT !.exc = saved.exc]]
    /\ UNCHANGED << pipeline, today, subscription, applications, apply, followers,
                    followers_count, likes, likes_count, liking >>

\* two callers save resumes: new ones of profiles 1 and 2, and stored ones they
\* loaded, with is_default set or cleared
NextResume ==
    \E p \in Procs :
        \/ \E profile \in {1, 2}, title \in 1 .. MaxTitles, d \in BOOLEAN :
              SaveBegin(p, [id |-> None, profile |-> profile, title |-> title,
                            is_default |-> d, resume_pdf |-> FALSE])
        \/ \E r \in resumes, d \in BOOLEAN : SaveBegin(p, [r EXCEPT !.is_default = d])
        \/ \E pdf \in BOOLEAN : SaveInsert(p, pdf)

SpecResume == Init /\ [][NextResume]_vars

\* C28: at most one resume of a profile has is_default set, in every state.
C28_OneDefaultResumePerProfile ==
    \A r1, r2 \in resumes :
        (r1.profile = r2.profile /\ r1.is_default /\ r2.is_default) => r1 = r2

\* ------------------------------------------------- company followers
\* update_followers_count: self.followers.filter(is_active=True).count() over
\* the table
update_followers_count(company, table) ==
    Cardinality({f \in table : f.company = company /\ f.is_active})

\* FollowCompanyView.post of the user for company_id: get_or_create, and for a
\* row that was there the toggle of is_active; CompanyFollower.save() updates the
\* cached count only when the row it saved is active
FollowCompany(user, company_id) ==
    /\ IF company_id \notin Companies
       THEN UNCHANGED << followers, followers_count >>
       ELSE IF ~ \E f \in followers : f.company = company_id /\ f.user = user
       THEN LET follow == [company |-> company_id, user |-> user, is_active |-> TRUE]
                table == followers \cup {follow}
            IN /\ followers' = table
               /\ followers_count' = [followers_count EXCEPT ![company_id] =
                                         update_followers_count(company_id, table)]
       ELSE LET old == CHOOSE f \in followers : f.company = company_id /\ f.user = user
                follow == [old EXCEPT !.is_active = ~ old.is_active]
                table == (followers \ {old}) \cup {follow}
            IN /\ followers' = table
               /\ followers_count' =
                     IF follow.is_active
                     THEN [followers_count EXCEPT ![company_id] =
                              update_followers_count(company_id, table)]
                     ELSE followers_count
    /\ UNCHANGED << pipeline, today, subscription, applications, apply, resumes, saving,
                    likes, likes_count, liking >>

\* follow requests, one at a time
NextFollow ==
    \E user \in 1 .. NumUsers, company_id \in Companies \cup {None} :
        FollowCompany(user, company_id)

SpecFollow == Init /\ [][NextFollow]_vars

\* C29: the cached followers_count of every company is the number of its
\* CompanyFollower rows with is_active set.
C29_FollowersCountMatchesActiveRows ==
    \A c \in Companies :
        followers_count[c] = Cardinality({f \in followers : f.company = c /\ f.is_active})

\* ------------------------------------------------------- post likes
\* CompanyPostViewSet.like of the user, up to get_or_create: self.get_object()
\* loads the post, its likes_count with it
LikeBegin(p, user) ==
    /\ liking[p].pc = "idle"
    /\ likes_count <= MaxLikes
    /\ liking' = [liking EXCEPT ![p] = [pc |-> "loaded", user |-> user,
                                        likes_count |-> likes_count, liked |-> FALSE]]
    /\ UNCHANGED << pipeline, today, subscription, applications, apply, resumes, saving,
                    followers, followers_count, likes, likes_count >>

\* the rest of like: PostLike.objects.get_or_create (likes holds the users of the
\* post's PostLike rows), the delete of a row that was there, and
\* post.save(update_fields=["likes_count"]) of the loaded post
LikeToggle(p) ==
    /\ liking[p].pc = "loaded"
    /\ LET user == liking[p].user
           created == user \notin likes
           post_likes_count == IF created THEN liking[p].likes_count + 1
                               ELSE IF liking[p].likes_count - 1 > 0
                               THEN liking[p].likes_count - 1 ELSE 0
       IN /\ likes' = IF created THEN likes \cup {user} ELSE likes \ {user}
          /\ likes_count' = post_likes_count
          /\ liking' = [liking EXCEPT ![p] = [IdleLike EXCEPT !.liked = created,
                                                              !.likes_count = post_likes_count]]
    /\ UNCHANGED << pipeline, today, subscription, applications, apply, resumes, saving,
                    followers, followers_count >>

\* two callers serve like requests of the users
NextLike ==
    \E p \in Procs :
        \/ \E user \in 1 .. NumUsers : LikeBegin(p, user)
        \/ LikeToggle(p)

SpecLike == Init /\ [][NextLike]_vars

\* C30: when no like request is running, the post's likes_count is the number of
\* its PostLike rows, and it is never negative.
C30_LikesCountMatchesRows ==
    /\ likes_count >= 0
    /\ (\A p \in Procs : liking[p].pc = "idle") => likes_count = Cardinality(likes)

====
